---- MODULE Spec2Model ----
(***************************************************************************)
(* Model of jest-runner's TestRunner (packages/jest-runner/src/index.js):  *)
(* runTests with the in-band (sequential) and the parallel strategy, the   *)
(* throat gate, the watcher's interruption, the event emitter, the worker  *)
(* pool's teardown and the fatal exit; of jest-util's FakeTimers           *)
(* (packages/jest-util/src/FakeTimersLolex.js) over a lolex clock; and of  *)
(* jest-cli's default reporter (reporters/react_reporter.js).              *)
(*                                                                         *)
(* One step of the model is one turn of the JavaScript event loop: the     *)
(* callback that an external completion triggers (an emit that returned,   *)
(* a runTest or worker promise that settled, a watcher notification)       *)
(* together with everything that runs synchronously or in microtasks       *)
(* after it, up to the next await on an external completion.               *)
(***************************************************************************)
EXTENDS Integers, Sequences, FiniteSets, TLC

\* ---------------------------------------------------------------- bounds
MaxTests == 3
MaxWorkers == 2
MaxNow == 2         \* clock readings are 0..MaxNow
MaxTimers == 2      \* timers pending in a clock
MaxWarnings == 2    \* console.warn calls
MaxLolexCalls == 4  \* install / uninstall calls
MaxPaths == 2       \* test paths are 1..MaxPaths
MaxEvents == 3      \* TestStart / TestResult events given to onNewData

VARIABLES
  serial,       \* options.serial
  maxWorkers,   \* globalConfig.maxWorkers
  numTests,     \* tests.length
  interrupted,  \* what watcher.isInterrupted() returns
  onInterrupt,  \* state of the onInterrupt promise
  pc,           \* per test: where its promise chain stands
  err,          \* per test: the error its chain carries
  queue,        \* throat: the queued calls, oldest first
  size,         \* throat: free slots
  race,         \* Promise.race([runAllTests, onInterrupt])
  outcome,      \* the promise runTests returned
  value,        \* what that promise was fulfilled with
  exitCalls,    \* the statuses given to exit(), in order
  events,       \* the events given to eventEmitter.emit, in order
  dispatched,   \* the tests handed to runTest or to worker.worker
  endCalls,     \* number of calls to worker.end
  fakingTime,   \* FakeTimers: this._fakingTime
  clock,        \* FakeTimers: this._clock
  lolexLog,     \* the calls of lolex install and of clock.uninstall, in order
  warnings,     \* number of calls to this._global.console.warn
  lastCall,     \* the FakeTimers method called last
  ret,          \* what that call returned: <<>> for nothing, <<v>> for v
  components,   \* DefaultReporter: number of callbacks in this._components
  mounted,      \* DefaultReporter: rendered and not yet unmounted
  currentTests,       \* Reporter: this.state.currentTests
  completedTests,     \* Reporter: this.state.completedTests
  done,               \* Reporter: this.state.done
  aggregatedResults,  \* Reporter: where this.state.aggregatedResults is from
  dataLog       \* the events given to Reporter.onNewData, in order

\* the state of the default reporter and its Reporter component
reporterVars == <<components, mounted, currentTests, completedTests, done,
                  aggregatedResults, dataLog>>

\* the state of a FakeTimers instance, and the state of a run
timerVars == <<fakingTime, clock, lolexLog, warnings, lastCall, ret>>
runnerVars == <<serial, maxWorkers, numTests, interrupted, onInterrupt,
                pc, err, queue, size, race, outcome, value, exitCalls, events,
                dispatched, endCalls>>

vars == <<serial, maxWorkers, numTests, interrupted, onInterrupt,
          pc, err, queue, size, race, outcome, value, exitCalls, events,
          dispatched, endCalls,
          fakingTime, clock, lolexLog, warnings, lastCall, ret,
          components, mounted, currentTests, completedTests, done,
          aggregatedResults, dataLog>>

Tests == 1..numTests

Ev(op, t) == [op |-> op, test |-> t]

\* what runTest / worker.worker can settle with
Outcomes == {"result", "Error", "ProcessTerminatedError"}

Min(a, b) == IF a < b THEN a ELSE b

\* the tests from..to, in order
RECURSIVE Range(_, _)
Range(from, to) == IF from > to THEN <<>> ELSE <<from>> \o Range(from + 1, to)

RECURSIVE Concat(_)
Concat(ss) == IF ss = <<>> THEN <<>> ELSE Head(ss) \o Concat(Tail(ss))

\* this._clock before the first install
NoClock == [made |-> FALSE, now |-> 0, timers |-> 0]

Init ==
  /\ serial \in BOOLEAN
  /\ maxWorkers \in 1..MaxWorkers
  /\ numTests \in 0..MaxTests
  /\ interrupted = FALSE
  /\ onInterrupt = "none"
  /\ pc = [t \in 1..numTests |-> "idle"]
  /\ err = [t \in 1..numTests |-> "none"]
  /\ queue = <<>>
  /\ size = 0
  /\ race = "pending"
  /\ outcome = "idle"
  /\ value = "none"
  /\ exitCalls = <<>>
  /\ events = <<>>
  /\ dispatched = {}
  /\ endCalls = 0
  /\ fakingTime = FALSE
  /\ clock = NoClock
  /\ lolexLog = <<>>
  /\ warnings = 0
  /\ lastCall = "constructor"
  /\ ret = <<>>
  /\ components = 0
  /\ mounted = FALSE
  /\ currentTests = <<>>
  /\ completedTests = <<>>
  /\ done = FALSE
  /\ aggregatedResults = "props"
  /\ dataLog = <<>>

\* exit() has not been called: the process is running
Alive == exitCalls = <<>>

\* ------------------------------------------------------ the watcher
\* TestWatcher.setState({interrupted: b}): what isInterrupted() returns
\* afterwards.  The flag of a run's watcher never goes back to false.
WatcherSetState(b) == interrupted \/ b

\* The listener registered by onInterrupt rejects the promise on an
\* interrupted 'change' notification; a settled promise stays as it is.
OnInterruptAfter(b) ==
  IF b /\ onInterrupt = "pending" THEN "rejected" ELSE onInterrupt

\* ------------------------------------------------------ teardown
\* then(cleanup) without the rejection handler
ThenCleanupFulfilledOnly(r) == IF r = "completed" THEN 1 ELSE 0

\* Promise.race([runAllTests, onInterrupt]).then(cleanup, cleanup):
\* the number of calls to cleanup made when the race settles as r
ThenCleanup(r) == 1

\* the promise runTests returns once the race settled as r and the
\* handlers above ran
ThenOutcome(r) == IF ThenCleanup(r) = 0 /\ r # "completed"
                  THEN "rejected" ELSE "fulfilled"

\* a cleanup that returns a tag naming the side that won the race
ThenValueTagged(r) == IF r = "completed" THEN "Completed" ELSE "Cancelled"

\* cleanup = () => worker.end() is both the fulfilment and the rejection
\* handler: what the returned promise is fulfilled with when the race
\* settled as r
ThenValue(r) == "worker.end()"

\* a race that settles when any chain is fulfilled
RaceAfterAny(p) ==
  IF race # "pending" THEN race
  ELSE IF \E t \in Tests : p[t] = "threw" THEN "failed"
  ELSE IF \E t \in Tests : p[t] = "done" THEN "completed"
  ELSE "pending"

\* Promise.all over the per-test chains, raced against onInterrupt: the
\* race's state once the chains stand as p
RaceAfter(p) ==
  IF race # "pending" THEN race
  ELSE IF \E t \in Tests : p[t] = "threw" THEN "failed"
  ELSE IF \A t \in Tests : p[t] = "done" THEN "completed"
  ELSE "pending"

\* a cleanup that runs in every step that finds the race settled
CleanupCallsWheneverSettled(r) == IF r # "pending" THEN ThenCleanup(r) ELSE 0

\* the teardown calls a step makes when it moves the race to r
CleanupCalls(r) == IF race = "pending" /\ r # "pending" THEN ThenCleanup(r)
                   ELSE 0

\* ------------------------------------------------------ in-band strategy
\* reduceRight in place of reduce
InBandOrderReversed == [i \in 1..numTests |-> numTests + 1 - i]

\* tests.reduce(...): the order in which the chain visits the tests
InBandOrder == Range(1, numTests)

\* a chain that emits test-file-start a second time before runTest
InBandAdmitLogTwice(t) ==
  IF interrupted THEN <<Ev("test-file-failure", t)>>
  ELSE <<Ev("test-file-start", t), Ev("test-file-start", t)>>

\* a chain that calls runTest without awaiting the emit of test-file-start
InBandAdmitPcNoAwait == IF interrupted THEN "emitFailure" ELSE "running"

\* the pre-test check and what follows it in the same turn: an interrupted
\* watcher throws CancelRun, which skips the success handler and reaches the
\* chain's catch; otherwise test-file-start is emitted
InBandAdmitPc == IF interrupted THEN "emitFailure" ELSE "emitStart"
InBandAdmitErr == IF interrupted THEN "CancelRun" ELSE "none"
InBandAdmitLog(t) ==
  IF interrupted THEN <<Ev("test-file-failure", t)>>
  ELSE <<Ev("test-file-start", t)>>

\* the chain without its catch
InBandSettleLogNoCatch(t, o) ==
  IF o = "result" THEN <<Ev("test-file-success", t)>> ELSE <<>>

\* handlers that drop the result of a test once the watcher is interrupted
InBandSettleLogUnlessInterrupted(t, o) ==
  IF interrupted THEN <<>>
  ELSE IF o = "result" THEN <<Ev("test-file-success", t)>>
  ELSE <<Ev("test-file-failure", t)>>

\* .then(result => emit success).catch(err => emit failure) applied to
\* what runTest settled with
InBandSettleLog(t, o) ==
  IF o = "result" THEN <<Ev("test-file-success", t)>>
  ELSE <<Ev("test-file-failure", t)>>

\* a failure handler that gives up on a terminated process
SettlePcEscalating(o) ==
  IF o = "result" THEN "emitSuccess"
  ELSE IF o = "ProcessTerminatedError" THEN "exited"
  ELSE "emitFailure"

SettlePc(o) == IF o = "result" THEN "emitSuccess" ELSE "emitFailure"
SettleErr(o) == IF o = "result" THEN "none" ELSE o

\* what the reduced chain is fulfilled with: the initial Promise.resolve()
\* or the value of the last test's terminal emit
InBandValue == IF numTests = 0 THEN "undefined" ELSE "emit()"

\* runTests with options.serial: throat(1) runs the first test's function,
\* the others queue behind it
RunInBand ==
  /\ outcome = "idle" /\ serial
  /\ outcome' = "pending"
  /\ IF InBandOrder = <<>>
     THEN UNCHANGED <<pc, err, queue, events>>
     ELSE LET t == Head(InBandOrder) IN
          /\ pc' = [u \in Tests |-> IF u = t THEN InBandAdmitPc ELSE "queued"]
          /\ err' = [err EXCEPT ![t] = InBandAdmitErr]
          /\ queue' = Tail(InBandOrder)
          /\ events' = events \o InBandAdmitLog(t)
  /\ size' = 0
  /\ UNCHANGED <<reporterVars, timerVars, value, serial, maxWorkers, numTests, interrupted,
                 onInterrupt, race, exitCalls, dispatched,
                 endCalls>>

\* emit('test-file-start') returned: runTest is called
InBandEmitStartReturn(t) ==
  /\ serial /\ Alive /\ pc[t] = "emitStart"
  /\ pc' = [pc EXCEPT ![t] = "running"]
  /\ dispatched' = dispatched \cup {t}
  /\ UNCHANGED <<reporterVars, timerVars, value, serial, maxWorkers, numTests, interrupted,
                 onInterrupt, err, queue, size, race, outcome, exitCalls,
                 events, endCalls>>

\* runTest settled with o: the terminal event is emitted
InBandRunTestSettle(t, o) ==
  /\ serial /\ Alive /\ pc[t] = "running"
  /\ pc' = [pc EXCEPT ![t] = SettlePc(o)]
  /\ err' = [err EXCEPT ![t] = SettleErr(o)]
  /\ events' = events \o InBandSettleLog(t, o)
  /\ UNCHANGED <<reporterVars, timerVars, value, serial, maxWorkers, numTests, interrupted,
                 onInterrupt, queue, size, race, outcome, exitCalls, dispatched,
                 endCalls>>

\* the terminal emit returned: the test's chain is fulfilled, throat
\* releases the slot and runs the next queued function
InBandEmitReturn(t) ==
  /\ serial /\ Alive /\ pc[t] \in {"emitSuccess", "emitFailure"}
  /\ IF queue = <<>>
     THEN /\ pc' = [pc EXCEPT ![t] = "done"]
          /\ size' = size + 1
          /\ UNCHANGED <<err, queue, events>>
     ELSE LET n == Head(queue) IN
          /\ pc' = [pc EXCEPT ![t] = "done", ![n] = InBandAdmitPc]
          /\ err' = [err EXCEPT ![n] = InBandAdmitErr]
          /\ queue' = Tail(queue)
          /\ events' = events \o InBandAdmitLog(n)
          /\ UNCHANGED size
  /\ UNCHANGED <<reporterVars, timerVars, value, serial, maxWorkers, numTests, interrupted,
                 onInterrupt, race, outcome, exitCalls, dispatched,
                 endCalls>>

\* the reduced chain is fulfilled: runTests resolves
InBandDeliver ==
  /\ serial /\ Alive /\ outcome = "pending"
  /\ \A t \in Tests : pc[t] = "done"
  /\ outcome' = "fulfilled"
  /\ value' = InBandValue
  /\ UNCHANGED <<reporterVars, timerVars, serial, maxWorkers, numTests, interrupted,
                 onInterrupt, pc, err, queue, size, race, exitCalls,
                 events, dispatched,
                 endCalls>>

\* ------------------------------------------------------ parallel strategy
\* a gate one slot too wide
GateWidthPlusOne == maxWorkers + 1

\* throat(this._globalConfig.maxWorkers)
GateWidth == maxWorkers

\* tests.reverse().map(...)
ParallelOrderReversed == [i \in 1..numTests |-> numTests + 1 - i]

\* tests.map(...): the order in which the tests call the gate
ParallelOrder == Range(1, numTests)

\* the gate's function without its re-check of the watcher
AdmitLogUnchecked(t) == <<Ev("test-file-start", t)>>

\* the function the gate runs for an admitted test, up to its first await:
\* an interrupted watcher returns a rejected promise, otherwise
\* test-file-start is emitted
AdmitPc == IF interrupted THEN "cancelled" ELSE "emitStart"
AdmitLog(t) == IF interrupted THEN <<>> ELSE <<Ev("test-file-start", t)>>

\* a release that takes the oldest queued call off the queue without
\* running it
ReleasePcNoRun(p) == p

\* throat's release: the slot goes to the oldest queued call, which runs at
\* once, or back to the pool
ReleasePc(p) == IF queue = <<>> THEN p ELSE [p EXCEPT ![Head(queue)] = AdmitPc]
ReleaseLog == IF queue = <<>> THEN <<>> ELSE AdmitLog(Head(queue))
ReleaseQueue == IF queue = <<>> THEN queue ELSE Tail(queue)
ReleaseSize == IF queue = <<>> THEN size + 1 ELSE size

\* the failure handler attached with then(..) in place of catch(..)
ParallelSettleLogBoth(t, o) ==
  IF o = "result"
  THEN <<Ev("test-file-success", t), Ev("test-file-failure", t)>>
  ELSE <<Ev("test-file-failure", t)>>

\* handlers that drop the result of a test once the watcher is interrupted
ParallelSettleLogUnlessInterrupted(t, o) ==
  IF interrupted THEN <<>>
  ELSE IF o = "result" THEN <<Ev("test-file-success", t)>>
  ELSE <<Ev("test-file-failure", t)>>

\* .then(result => emit success).catch(error => onError(error, test)) up to
\* the emit the handler awaits
ParallelSettleLog(t, o) ==
  IF o = "result" THEN <<Ev("test-file-success", t)>>
  ELSE <<Ev("test-file-failure", t)>>

\* the test made on the error's name in place of its type tag
IsFatalByName(e) == e = "Error"

\* an onError that exits on every error
IsFatalAlways(e) == TRUE

\* onError's test on the error's type tag
IsFatal(e) == e = "ProcessTerminatedError"

\* the status onError gives to exit()
ExitStatus == 1

\* runTests without options.serial: the listener of onInterrupt is
\* registered, every test calls the gate in input order, the first
\* GateWidth run at once; with no test the race settles at once
RunParallel ==
  /\ outcome = "idle" /\ ~serial
  /\ outcome' = "pending"
  /\ onInterrupt' = "pending"
  /\ LET k == Min(GateWidth, numTests)
         admitted == SubSeq(ParallelOrder, 1, k)
         p == [u \in Tests |->
                 IF \E i \in 1..k : admitted[i] = u THEN AdmitPc ELSE "queued"]
         r == RaceAfter(p)
     IN /\ pc' = p
        /\ queue' = SubSeq(ParallelOrder, k + 1, numTests)
        /\ size' = GateWidth - k
        /\ race' = r
        /\ events' = events \o Concat([i \in 1..k |-> AdmitLog(admitted[i])])
        /\ endCalls' = endCalls + CleanupCalls(r)
  /\ UNCHANGED <<reporterVars, timerVars, value, serial, maxWorkers, numTests, interrupted, err,
                 exitCalls, dispatched>>

\* emit('test-file-start') returned: the test is handed to the worker pool
EmitStartReturn(t) ==
  /\ ~serial /\ Alive /\ pc[t] = "emitStart"
  /\ pc' = [pc EXCEPT ![t] = "inflight"]
  /\ dispatched' = dispatched \cup {t}
  /\ UNCHANGED <<reporterVars, timerVars, value, serial, maxWorkers, numTests, interrupted,
                 onInterrupt, err, queue, size, race, outcome, exitCalls,
                 events, endCalls>>

\* a pool that settles its calls in the order it received them
CanSettleOldestFirst(t) ==
  pc[t] = "inflight" /\ \A u \in Tests : u < t => pc[u] # "inflight"

\* the promise of worker.worker({...}) may settle while the call is in
\* flight, whatever the other calls in flight
CanSettle(t) == pc[t] = "inflight"

\* worker.worker settled with o: throat releases the slot (the next queued
\* test runs), then the test's own handler emits its terminal event
WorkerSettle(t, o) ==
  /\ ~serial /\ Alive /\ CanSettle(t)
  /\ pc' = [ReleasePc(pc) EXCEPT ![t] = SettlePc(o)]
  /\ err' = [err EXCEPT ![t] = SettleErr(o)]
  /\ queue' = ReleaseQueue
  /\ size' = ReleaseSize
  /\ events' = events \o ReleaseLog \o ParallelSettleLog(t, o)
  /\ UNCHANGED <<reporterVars, timerVars, value, serial, maxWorkers, numTests, interrupted,
                 onInterrupt, race, outcome, exitCalls, dispatched,
                 endCalls>>

\* the rejected promise of an interrupted re-check settles the gate's call:
\* throat releases the slot, then the catch calls onError(undefined, test),
\* which emits test-file-failure
RejectSettle(t) ==
  /\ ~serial /\ Alive /\ pc[t] = "cancelled"
  /\ pc' = [ReleasePc(pc) EXCEPT ![t] = "emitFailure"]
  /\ err' = [err EXCEPT ![t] = "undefined"]
  /\ queue' = ReleaseQueue
  /\ size' = ReleaseSize
  /\ events' = events \o ReleaseLog \o <<Ev("test-file-failure", t)>>
  /\ UNCHANGED <<reporterVars, timerVars, value, serial, maxWorkers, numTests, interrupted,
                 onInterrupt, race, outcome, exitCalls, dispatched,
                 endCalls>>

\* emit('test-file-success') returned: the test's chain is fulfilled
EmitSuccessReturn(t) ==
  /\ ~serial /\ Alive /\ pc[t] = "emitSuccess"
  /\ LET p == [pc EXCEPT ![t] = "done"]
         r == RaceAfter(p)
     IN /\ pc' = p
        /\ race' = r
        /\ endCalls' = endCalls + CleanupCalls(r)
  /\ UNCHANGED <<reporterVars, timerVars, value, serial, maxWorkers, numTests, interrupted,
                 onInterrupt, err, queue, size, outcome, exitCalls, events,
                 dispatched>>

\* emit('test-file-failure') returned inside onError: err.type is read.
\* Reading it on undefined throws (the chain is rejected); the fatal tag
\* calls exit; any other error fulfils the chain
OnErrorContinue(t) ==
  /\ ~serial /\ Alive /\ pc[t] = "emitFailure"
  /\ IF err[t] # "undefined" /\ IsFatal(err[t])
     THEN /\ pc' = [pc EXCEPT ![t] = "exited"]
          /\ exitCalls' = Append(exitCalls, ExitStatus)
          /\ UNCHANGED <<race, endCalls>>
     ELSE LET p == [pc EXCEPT ![t] = IF err[t] = "undefined" THEN "threw"
                                     ELSE "done"]
              r == RaceAfter(p)
          IN /\ pc' = p
             /\ race' = r
             /\ endCalls' = endCalls + CleanupCalls(r)
             /\ UNCHANGED exitCalls
  /\ UNCHANGED <<reporterVars, timerVars, value, serial, maxWorkers, numTests, interrupted,
                 onInterrupt, err, queue, size, outcome, events, dispatched>>

\* worker.end()'s promise resolved: runTests settles
ParallelDeliver ==
  /\ ~serial /\ Alive /\ outcome = "pending" /\ race # "pending"
  /\ outcome' = ThenOutcome(race)
  /\ value' = ThenValue(race)
  /\ UNCHANGED <<reporterVars, timerVars, serial, maxWorkers, numTests, interrupted,
                 onInterrupt, pc, err, queue, size, race, exitCalls,
                 events, dispatched,
                 endCalls>>

\* ------------------------------------------------------ the watcher
\* watcher.setState({interrupted: b}): the flag is set and the 'change'
\* listeners run; onInterrupt's rejection settles the race when it is first
WatcherChange(b) ==
  /\ Alive
  /\ b \/ ~interrupted
  /\ interrupted' = WatcherSetState(b)
  /\ onInterrupt' = OnInterruptAfter(b)
  /\ LET r == IF race = "pending" /\ onInterrupt = "pending" /\ b
              THEN "interrupted" ELSE race
     IN /\ race' = r
        /\ endCalls' = endCalls + CleanupCalls(r)
  /\ UNCHANGED <<reporterVars, timerVars, value, serial, maxWorkers, numTests, pc, err, queue, size,
                 outcome, exitCalls, events, dispatched>>

\* the steps of the run itself
Progress ==
  \/ RunInBand
  \/ \E t \in Tests : InBandEmitStartReturn(t)
  \/ \E t \in Tests, o \in Outcomes : InBandRunTestSettle(t, o)
  \/ \E t \in Tests : InBandEmitReturn(t)
  \/ InBandDeliver
  \/ RunParallel
  \/ \E t \in Tests : EmitStartReturn(t)
  \/ \E t \in Tests, o \in Outcomes : WorkerSettle(t, o)
  \/ \E t \in Tests : RejectSettle(t)
  \/ \E t \in Tests : EmitSuccessReturn(t)
  \/ \E t \in Tests : OnErrorContinue(t)
  \/ ParallelDeliver

Next ==
  \/ Progress
  \/ \E b \in BOOLEAN : WatcherChange(b)

Spec == Init /\ [][Next]_vars

\* every emit returns, every runTest and worker.worker call settles and
\* every promise callback that is due runs; the watcher is free
FairSpec == Spec /\ WF_vars(Progress)

\* ============================================================ FakeTimers
\* ------------------------------------------------------ the lolex clock
\* The clock is lolex's; of a clock the model keeps its reading and the
\* number of its pending timers.  A method's result is any clock the
\* callbacks it runs can leave behind.
Clocks == [made : {TRUE}, now : 0..MaxNow, timers : 0..MaxTimers]

\* lolex.install({now: Date.now(), ...}): a new clock without timers
LolexInstall == {c \in Clocks : c.timers = 0}
ClockRunAll(c) == {d \in Clocks : d.timers = 0 /\ d.now >= c.now}
ClockRunToLast(c) == {d \in Clocks : d.now >= c.now}
ClockTick(c, ms) == {d \in Clocks : d.now = c.now + ms}
ClockRunMicrotasks(c) == {d \in Clocks : d.now = c.now}
ClockReset(c) == {d \in Clocks : d.timers = 0}
ClockSetSystemTime(c, now) == [c EXCEPT !.now = now]
ClockCountTimers(c) == c.timers
ClockSetTimeout(c) == [c EXCEPT !.timers = @ + 1]

\* ------------------------------------------------------ FakeTimers
\* a check that never warns
WarningsAfterCheckSilent == warnings

\* _checkFakeTimers(): warns when time is not faked, returns the flag
WarningsAfterCheck == IF ~fakingTime THEN warnings + 1 ELSE warnings
CheckFakeTimers == fakingTime

\* a warning can still be counted
CanWarn == fakingTime \/ warnings < MaxWarnings
\* an install or uninstall can still be logged
CanLog == Len(lolexLog) < MaxLolexCalls

\* useFakeTimers without its test of the flag
UseFakeTimersInstallsAlways == TRUE

\* useFakeTimers installs a clock only when time is not faked yet
UseFakeTimersInstalls == ~fakingTime

\* useRealTimers uninstalls the clock only when time is faked
UseRealTimersUninstalls == fakingTime
LogAfterUseRealTimers ==
  IF UseRealTimersUninstalls THEN Append(lolexLog, "uninstall") ELSE lolexLog
FlagAfterUseRealTimers == IF UseRealTimersUninstalls THEN FALSE ELSE fakingTime

\* getTimerCount's result
GetTimerCountResult ==
  IF CheckFakeTimers THEN ClockCountTimers(clock) ELSE 0

UseFakeTimers ==
  /\ UseFakeTimersInstalls => CanLog
  /\ IF UseFakeTimersInstalls
     THEN /\ clock' \in LolexInstall
          /\ lolexLog' = Append(lolexLog, "install")
          /\ fakingTime' = TRUE
     ELSE UNCHANGED <<clock, lolexLog, fakingTime>>
  /\ lastCall' = "useFakeTimers" /\ ret' = <<>>
  /\ UNCHANGED <<warnings, runnerVars, reporterVars>>

UseRealTimers ==
  /\ UseRealTimersUninstalls => CanLog
  /\ lolexLog' = LogAfterUseRealTimers
  /\ fakingTime' = FlagAfterUseRealTimers
  /\ lastCall' = "useRealTimers" /\ ret' = <<>>
  /\ UNCHANGED <<clock, warnings, runnerVars, reporterVars>>

\* dispose() is useRealTimers()
Dispose ==
  /\ UseRealTimersUninstalls => CanLog
  /\ lolexLog' = LogAfterUseRealTimers
  /\ fakingTime' = FlagAfterUseRealTimers
  /\ lastCall' = "dispose" /\ ret' = <<>>
  /\ UNCHANGED <<clock, warnings, runnerVars, reporterVars>>

ClearAllTimers ==
  /\ clock' \in (IF fakingTime THEN ClockReset(clock) ELSE {clock})
  /\ lastCall' = "clearAllTimers" /\ ret' = <<>>
  /\ UNCHANGED <<fakingTime, lolexLog, warnings, runnerVars, reporterVars>>

RunAllTimers ==
  /\ CanWarn
  /\ warnings' = WarningsAfterCheck
  /\ clock' \in (IF CheckFakeTimers THEN ClockRunAll(clock) ELSE {clock})
  /\ lastCall' = "runAllTimers" /\ ret' = <<>>
  /\ UNCHANGED <<fakingTime, lolexLog, runnerVars, reporterVars>>

RunOnlyPendingTimers ==
  /\ CanWarn
  /\ warnings' = WarningsAfterCheck
  /\ clock' \in (IF CheckFakeTimers THEN ClockRunToLast(clock) ELSE {clock})
  /\ lastCall' = "runOnlyPendingTimers" /\ ret' = <<>>
  /\ UNCHANGED <<fakingTime, lolexLog, runnerVars, reporterVars>>

AdvanceTimersByTime(msToRun) ==
  /\ CanWarn
  /\ CheckFakeTimers => clock.now + msToRun <= MaxNow
  /\ warnings' = WarningsAfterCheck
  /\ clock' \in (IF CheckFakeTimers THEN ClockTick(clock, msToRun)
                 ELSE {clock})
  /\ lastCall' = "advanceTimersByTime" /\ ret' = <<>>
  /\ UNCHANGED <<fakingTime, lolexLog, runnerVars, reporterVars>>

RunAllTicks ==
  /\ CanWarn
  /\ warnings' = WarningsAfterCheck
  /\ clock' \in (IF CheckFakeTimers THEN ClockRunMicrotasks(clock)
                 ELSE {clock})
  /\ lastCall' = "runAllTicks" /\ ret' = <<>>
  /\ UNCHANGED <<fakingTime, lolexLog, runnerVars, reporterVars>>

\* reset(): the clock is reset and put back to the reading it had
Reset ==
  /\ CanWarn
  /\ warnings' = WarningsAfterCheck
  /\ clock' \in (IF CheckFakeTimers
                 THEN {ClockSetSystemTime(d, clock.now) : d \in ClockReset(clock)}
                 ELSE {clock})
  /\ lastCall' = "reset" /\ ret' = <<>>
  /\ UNCHANGED <<fakingTime, lolexLog, runnerVars, reporterVars>>

SetSystemTime(now) ==
  /\ CanWarn
  /\ warnings' = WarningsAfterCheck
  /\ clock' = IF CheckFakeTimers THEN ClockSetSystemTime(clock, now) ELSE clock
  /\ lastCall' = "setSystemTime" /\ ret' = <<>>
  /\ UNCHANGED <<fakingTime, lolexLog, runnerVars, reporterVars>>

\* getRealSystemTime(): Date.now()
GetRealSystemTime(now) ==
  /\ lastCall' = "getRealSystemTime" /\ ret' = <<now>>
  /\ UNCHANGED <<fakingTime, clock, lolexLog, warnings, runnerVars, reporterVars>>

GetTimerCount ==
  /\ CanWarn
  /\ warnings' = WarningsAfterCheck
  /\ lastCall' = "getTimerCount" /\ ret' = <<GetTimerCountResult>>
  /\ UNCHANGED <<fakingTime, clock, lolexLog, runnerVars, reporterVars>>

\* code under test calls the faked global.setTimeout
GlobalSetTimeout ==
  /\ fakingTime /\ clock.timers < MaxTimers
  /\ clock' = ClockSetTimeout(clock)
  /\ UNCHANGED <<fakingTime, lolexLog, warnings, lastCall, ret, runnerVars, reporterVars>>

TimersNext ==
  \/ UseFakeTimers
  \/ UseRealTimers
  \/ Dispose
  \/ ClearAllTimers
  \/ RunAllTimers
  \/ RunOnlyPendingTimers
  \/ \E ms \in 0..MaxNow : AdvanceTimersByTime(ms)
  \/ RunAllTicks
  \/ Reset
  \/ \E now \in 0..MaxNow : SetSystemTime(now)
  \/ \E now \in 0..MaxNow : GetRealSystemTime(now)
  \/ GetTimerCount
  \/ GlobalSetTimeout

\* a FakeTimers instance on its own, no run going on
TimersInit == Init /\ serial /\ numTests = 0 /\ maxWorkers = 1

TimersSpec == TimersInit /\ [][TimersNext]_vars

\* ====================================================== default reporter
\* a Test as far as the reporter reads it: test.path and
\* test.context.config (the same path can belong to two projects)
Paths == 1..MaxPaths
Configs == {"A", "B"}
ReporterTests == [path : Paths, config : Configs]

\* the DateEvents the default reporter gives to its components
TestStartEvent(test) ==
  [type |-> "TestStart", path |-> test.path, config |-> test.config,
   skipped |-> FALSE]
TestResultEvent(test, skipped) ==
  [type |-> "TestResult", path |-> test.path, config |-> test.config,
   skipped |-> skipped]
TestCompleteEvent ==
  [type |-> "TestComplete", path |-> 0, config |-> "none", skipped |-> FALSE]

\* ------------------------------------------------------ Reporter.onNewData
\* case 'TestStart': the pair [path, config] is appended
CurrentTestsAfterStart(test) ==
  Append(currentTests, <<test.path, test.config>>)

\* a filter with the comparison inverted
CurrentTestsAfterResultInverted(test) ==
  SelectSeq(currentTests, LAMBDA e : test.path = e[1])

\* case 'TestResult': every pair with the test's path is filtered out
CurrentTestsAfterResult(test) ==
  SelectSeq(currentTests, LAMBDA e : test.path # e[1])

\* case 'TestResult': the result is appended unless it is skipped
CompletedTestsAfterResult(test, skipped) ==
  IF skipped THEN completedTests
  ELSE Append(completedTests, [config |-> test.config, path |-> test.path])

\* the TestStart and TestResult events given to onNewData so far
DataEvents == SelectSeq(dataLog, LAMBDA e : e.type # "TestComplete")

\* ------------------------------------------------------ DefaultReporter
\* onRunStart: render(<Reporter register=... />); the component's
\* constructor registers its onNewData and sets its initial state
OnRunStart ==
  /\ components = 0
  /\ components' = components + 1
  /\ mounted' = TRUE
  /\ currentTests' = <<>>
  /\ completedTests' = <<>>
  /\ done' = FALSE
  /\ aggregatedResults' = "props"
  /\ UNCHANGED <<dataLog, runnerVars, timerVars>>

\* onTestStart: every registered component gets a TestStart event.  The
\* scheduler reports no test after onRunComplete.
OnTestStart(test) ==
  /\ ~done /\ Len(DataEvents) < MaxEvents
  /\ IF components = 0
     THEN UNCHANGED <<currentTests, dataLog>>
     ELSE /\ currentTests' = CurrentTestsAfterStart(test)
          /\ dataLog' = Append(dataLog, TestStartEvent(test))
  /\ UNCHANGED <<components, mounted, completedTests, done,
                 aggregatedResults, runnerVars, timerVars>>

\* onTestResult: every registered component gets a TestResult event
OnTestResult(test, skipped) ==
  /\ ~done /\ Len(DataEvents) < MaxEvents
  /\ IF components = 0
     THEN UNCHANGED <<currentTests, completedTests, aggregatedResults,
                      dataLog>>
     ELSE /\ currentTests' = CurrentTestsAfterResult(test)
          /\ completedTests' = CompletedTestsAfterResult(test, skipped)
          /\ aggregatedResults' = "payload"
          /\ dataLog' = Append(dataLog, TestResultEvent(test, skipped))
  /\ UNCHANGED <<components, mounted, done, runnerVars, timerVars>>

\* onRunComplete: every registered component gets TestComplete, then the
\* rendered tree is unmounted
OnRunComplete ==
  /\ mounted
  /\ done' = TRUE
  /\ dataLog' = Append(dataLog, TestCompleteEvent)
  /\ mounted' = FALSE
  /\ UNCHANGED <<components, currentTests, completedTests,
                 aggregatedResults, runnerVars, timerVars>>

ReporterNext ==
  \/ OnRunStart
  \/ \E test \in ReporterTests : OnTestStart(test)
  \/ \E test \in ReporterTests, skipped \in BOOLEAN :
       OnTestResult(test, skipped)
  \/ OnRunComplete

\* a default reporter on its own
ReporterInit == Init /\ serial /\ numTests = 0 /\ maxWorkers = 1

ReporterSpec == ReporterInit /\ [][ReporterNext]_vars

\* ================================================================ claims
EventCount(op, t) ==
  Cardinality({i \in 1..Len(events) : events[i] = Ev(op, t)})
Started(t) == EventCount("test-file-start", t) > 0
TerminalCount(t) ==
  EventCount("test-file-success", t) + EventCount("test-file-failure", t)
NoEvent(t) == \A i \in 1..Len(events) : events[i].test # t
\* the test's execution has settled and its handler has run
Settled(t) == pc[t] \in {"emitSuccess", "emitFailure", "done", "exited", "threw"}
InFlight == {t \in Tests : pc[t] = "inflight"}
FatalReported == \E t \in Tests : ~serial /\ err[t] = "ProcessTerminatedError"

\* C1: in both strategies an admitted test (one whose test-file-start was
\* emitted) never has more than one terminal event, and once its execution
\* has settled it has exactly one: one test-file-success or one
\* test-file-failure, never both, never one of them twice.
C1_ExactlyOneTerminal ==
  \A t \in Tests :
    Started(t) =>
      /\ TerminalCount(t) <= 1
      /\ Settled(t) => TerminalCount(t) = 1
      /\ TerminalCount(t) = 1 => Settled(t)

C1_Witness ==
  /\ ~serial
  /\ \E t, u \in Tests :
       /\ Started(t) /\ Started(u)
       /\ pc[t] = "done" /\ pc[u] = "done"
       /\ EventCount("test-file-success", t) = 1
       /\ EventCount("test-file-failure", u) = 1

\* C2: in the sequential strategy, a test whose pre-test check finds the
\* watcher interrupted, and every test after it, has no event at all.
C2_NoEventOnceInterrupted ==
  \A t \in Tests :
    (serial /\ err[t] = "CancelRun") =>
      \A u \in Tests : u >= t => NoEvent(u)

\* C3: in the parallel strategy, a test whose re-check after acquiring the
\* gate finds the watcher interrupted has no event at all.
C3_NoEventForCancelled ==
  \A t \in Tests :
    (~serial /\ (pc[t] = "cancelled" \/ err[t] = "undefined")) => NoEvent(t)

\* C4: in the parallel strategy at most maxWorkers tests are in flight
\* (handed to the worker pool and not yet settled) at any time.
C4_AtMostKInFlight ==
  ~serial => Cardinality(InFlight) <= maxWorkers

C4_Witness ==
  /\ ~serial /\ maxWorkers >= 2
  /\ Cardinality(InFlight) = maxWorkers
  /\ queue # <<>>

\* C5: in the parallel strategy worker.end is called at most once, it is
\* called as soon as the race between completion and cancellation settles,
\* whichever side wins, and runTests has not delivered its outcome unless it
\* was called exactly once.
C5_TeardownOnceBeforeOutcome ==
  ~serial =>
    /\ endCalls <= 1
    /\ race # "pending" => endCalls = 1
    /\ outcome \in {"fulfilled", "rejected"} => endCalls = 1

C5_Witness ==
  /\ ~serial /\ race = "interrupted" /\ outcome = "fulfilled"
  /\ endCalls = 1
  /\ \E t \in Tests : pc[t] = "inflight"

\* C6: on the fatal path exit is never called while worker.end has not
\* been called.
C6_TeardownBeforeExit ==
  exitCalls # <<>> => endCalls >= 1

\* C7: in the parallel strategy, once onError has gone past its emit for a
\* test that failed with the ProcessTerminatedError tag, the process has
\* been terminated with status 1; and the process is terminated only by a
\* test with that tag whose test-file-failure was emitted and whose emit
\* has returned.
C7_FailureThenExit ==
  /\ \A t \in Tests :
       (~serial /\ err[t] = "ProcessTerminatedError" /\ pc[t] # "emitFailure")
         => exitCalls = <<1>>
  /\ exitCalls # <<>> =>
       /\ exitCalls = <<1>>
       /\ \E t \in Tests :
            /\ pc[t] = "exited"
            /\ err[t] = "ProcessTerminatedError"
            /\ EventCount("test-file-failure", t) = 1

C7_Witness ==
  /\ exitCalls = <<1>>
  /\ \E t \in Tests : pc[t] = "exited" /\ EventCount("test-file-failure", t) = 1

\* C8: in the parallel strategy, once a dispatched test has reported a fatal
\* pool fault, no further test-file-start is emitted and no further test is
\* handed to the worker pool.
C8_NoDispatchAfterFatal ==
  [][FatalReported =>
       /\ \A t \in Tests : Started(t)' => Started(t)
       /\ dispatched' = dispatched]_vars

\* C9: in the sequential strategy test-file-start events follow the input
\* order, the start of a test is emitted only after the terminal event of
\* the test before it, and at most one test is executing at any time.
C9_InOrderNoOverlap ==
  serial =>
    /\ \A i, j \in 1..Len(events) :
         (i < j /\ events[i].op = "test-file-start"
                /\ events[j].op = "test-file-start")
           => events[i].test < events[j].test
    /\ \A j \in 1..Len(events) :
         (events[j].op = "test-file-start" /\ events[j].test > 1) =>
           \E i \in 1..(j - 1) :
             /\ events[i].test = events[j].test - 1
             /\ events[i].op \in {"test-file-success", "test-file-failure"}
    /\ Cardinality({t \in Tests : pc[t] \in {"emitStart", "running"}}) <= 1

C9_Witness ==
  /\ serial /\ numTests >= 2
  /\ \A t \in Tests : Started(t) /\ pc[t] = "done"

\* C10: in the sequential strategy an error raised by a test's execution
\* becomes one test-file-failure for that test and no test-file-success,
\* runTests is never rejected and the process never exits, and the test
\* after it is still attempted.
C10_ErrorBecomesFailure ==
  serial =>
    /\ \A t \in Tests :
         err[t] \in {"Error", "ProcessTerminatedError"} =>
           /\ EventCount("test-file-failure", t) = 1
           /\ EventCount("test-file-success", t) = 0
           /\ (pc[t] = "done" /\ t < numTests) => pc[t + 1] # "queued"
    /\ outcome # "rejected"
    /\ exitCalls = <<>>
    /\ outcome = "fulfilled" => \A t \in Tests : ~NoEvent(t)

C10_Witness ==
  /\ serial /\ numTests >= 2 /\ outcome = "fulfilled"
  /\ err[1] = "Error" /\ Started(2) /\ pc[2] = "done"

NoStarts == \A i \in 1..Len(events) : events[i].op # "test-file-start"
StartedTests == {t \in Tests : Started(t)}
IsTerminal(e) == e.op \in {"test-file-success", "test-file-failure"}
\* the test-file-start events follow the input order
StartsInInputOrder ==
  \A i, j \in 1..Len(events) :
    (i < j /\ events[i].op = "test-file-start"
           /\ events[j].op = "test-file-start")
      => events[i].test < events[j].test

\* C11: in the parallel strategy a dispatch rejected with an error that
\* does not carry the ProcessTerminatedError tag gets one test-file-failure
\* and no test-file-success and never terminates the process; exit is
\* called if and only if onError has handled an error with that tag; an
\* ordinary failure never rejects runAllTests, and the run is completed
\* only when every test has its terminal event.
C11_OrdinaryFailureAbsorbed ==
  ~serial =>
    /\ \A t \in Tests :
         err[t] = "Error" =>
           /\ EventCount("test-file-failure", t) = 1
           /\ EventCount("test-file-success", t) = 0
           /\ pc[t] \in {"emitFailure", "done"}
    /\ exitCalls # <<>> <=>
         \E t \in Tests : err[t] = "ProcessTerminatedError"
                          /\ pc[t] # "emitFailure"
    /\ \A t \in Tests : pc[t] = "exited" => err[t] = "ProcessTerminatedError"
    /\ race = "failed" => \E t \in Tests : err[t] = "undefined"
    /\ race = "completed" =>
         \A t \in Tests : pc[t] = "done" /\ TerminalCount(t) = 1

C11_Witness ==
  /\ ~serial /\ race = "completed" /\ outcome = "fulfilled" /\ Alive
  /\ \E t, u \in Tests :
       /\ err[t] = "Error" /\ EventCount("test-file-failure", t) = 1
       /\ EventCount("test-file-success", u) = 1

\* C12: in both strategies the promise runTests returned is never rejected,
\* in particular not when the watcher interrupted the run: once it has
\* settled it is fulfilled.
C12_NeverRejected ==
  /\ outcome # "rejected"
  /\ (interrupted /\ outcome \notin {"idle", "pending"}) => outcome = "fulfilled"

C12_Witness ==
  /\ serial /\ interrupted /\ outcome = "fulfilled"
  /\ \E t \in Tests : err[t] = "CancelRun"

C14_InterruptedFirstNoStart ==
  /\ [][(interrupted /\ NoStarts) => NoStarts']_vars
  /\ (interrupted /\ NoStarts) ~> (outcome = "fulfilled")

C14_Witness ==
  /\ interrupted /\ NoStarts /\ outcome = "fulfilled"
  /\ ~serial /\ numTests >= 2

\* C15: in the parallel strategy no test-file-start is emitted in a step
\* taken while the watcher reports interrupted.
C15_NoAdmissionAfterCancel ==
  [][(~serial /\ interrupted) => StartedTests' = StartedTests]_vars

C15_Witness ==
  /\ ~serial /\ interrupted /\ race = "interrupted"
  /\ \E t, u \in Tests : Started(t) /\ pc[u] = "cancelled"

\* C16: in the parallel strategy, when tests are in flight after the
\* cancellation signal won the race, every started test eventually has its
\* terminal event, unless a fatal fault terminates the process first.
C16_InFlightCompletes ==
  (~serial /\ race = "interrupted" /\ \E t \in Tests : pc[t] = "inflight")
    ~> (~Alive \/ \A t \in Tests : Started(t) => TerminalCount(t) = 1)

C16_Witness ==
  /\ ~serial /\ numTests = 2 /\ maxWorkers = 1
  /\ race = "interrupted" /\ outcome = "fulfilled" /\ endCalls = 1
  /\ Started(1) /\ TerminalCount(1) = 1 /\ pc[1] = "done"
  /\ err[2] = "undefined"

\* C17: in the sequential strategy a started test is never given the
\* cancellation as its error: once settled it has the terminal event of its
\* own outcome; a test executing while the watcher is interrupted still
\* gets its terminal event; and no test-file-start is emitted in a step
\* taken while the watcher reports interrupted.
C17_RunningTestNotAborted ==
  /\ [](serial =>
         \A t \in Tests :
           Started(t) =>
             /\ err[t] # "CancelRun"
             /\ Settled(t) =>
                  IF err[t] = "none"
                  THEN /\ EventCount("test-file-success", t) = 1
                       /\ EventCount("test-file-failure", t) = 0
                  ELSE /\ EventCount("test-file-failure", t) = 1
                       /\ EventCount("test-file-success", t) = 0)
  /\ [][(serial /\ interrupted) => StartedTests' = StartedTests]_vars
  /\ (serial /\ interrupted
        /\ \E t \in Tests : pc[t] \in {"emitStart", "running"})
       ~> (\A t \in Tests : Started(t) => TerminalCount(t) = 1)

C17_Witness ==
  /\ serial /\ interrupted
  /\ \E t \in Tests : pc[t] = "running"

C19_StartOnceBeforeTerminal ==
  \A t \in Tests :
    /\ EventCount("test-file-start", t) <= 1
    /\ Started(t) =>
         \A i, j \in 1..Len(events) :
           (events[i] = Ev("test-file-start", t)
              /\ events[j].test = t /\ IsTerminal(events[j])) => i < j
    /\ t \in dispatched => Started(t)

C19_Witness ==
  /\ serial
  /\ \E t \in Tests :
       /\ EventCount("test-file-start", t) = 1
       /\ EventCount("test-file-failure", t) = 1
       /\ pc[t] = "done"

\* C20: when the watcher never interrupted and no fatal fault ended the
\* process, runTests is not fulfilled, and in the parallel strategy
\* worker.end is not called, before every test has its terminal event.
C20_CompletedOnlyWhenAllTerminal ==
  (~interrupted /\ Alive /\ (outcome = "fulfilled" \/ endCalls > 0)) =>
    \A t \in Tests : TerminalCount(t) = 1 /\ Started(t)

C20_Witness ==
  /\ ~serial /\ ~interrupted /\ Alive /\ numTests >= 2
  /\ endCalls = 1 /\ outcome = "pending"
  /\ \A t \in Tests : TerminalCount(t) = 1

\* C21: the onInterrupt promise is rejected at most once and stays
\* rejected; it is rejected only by an interrupted notification; a race it
\* won stays won by it; worker.end is called at most once; and a watcher
\* notification delivered after the promise was rejected changes neither
\* the promise nor the race nor the number of teardown calls.
C21_SignalFiresOnce ==
  /\ [](/\ endCalls <= 1
        /\ onInterrupt = "rejected" => interrupted
        /\ race = "interrupted" => (onInterrupt = "rejected" /\ endCalls = 1))
  /\ [][/\ onInterrupt = "rejected" => onInterrupt' = "rejected"
        /\ race = "interrupted" => race' = "interrupted"
        /\ endCalls' >= endCalls
        /\ (onInterrupt = "rejected" /\ \E b \in BOOLEAN : WatcherChange(b))
             => UNCHANGED <<onInterrupt, race, endCalls, outcome>>]_vars

C21_Witness ==
  /\ ~serial /\ numTests >= 1
  /\ onInterrupt = "rejected" /\ race = "interrupted"
  /\ endCalls = 1 /\ outcome = "pending"
  /\ ENABLED WatcherChange(TRUE)

\* the tests that hold a gate slot
HoldsSlot == {t \in Tests : pc[t] \in {"emitStart", "inflight", "cancelled"}}

\* C22: in the parallel strategy a test whose re-check found the watcher
\* interrupted is never handed to the worker pool; when its rejected
\* promise settles, its slot goes to the oldest queued test or back to the
\* gate; and while the process is alive a queued test does not stay queued
\* forever.
C22_CancelledSlotReleased ==
  /\ [](~serial =>
         /\ \A t \in Tests :
              (pc[t] = "cancelled" \/ err[t] = "undefined") =>
                 (t \notin dispatched /\ ~Started(t))
         /\ outcome # "idle" => size + Cardinality(HoldsSlot) = GateWidth
         /\ queue # <<>> => size = 0)
  /\ [][\A t \in Tests :
          (~serial /\ pc[t] = "cancelled" /\ pc'[t] # "cancelled") =>
            IF queue = <<>> THEN size' = size + 1
            ELSE /\ queue' = Tail(queue)
                 /\ pc'[Head(queue)] \in {"emitStart", "cancelled"}
                 /\ size' = size]_vars
  /\ (~serial /\ interrupted /\ \E t \in Tests : pc[t] = "queued")
       ~> (~Alive \/ \A t \in Tests : pc[t] # "queued")

C22_Witness ==
  /\ ~serial /\ maxWorkers = 1 /\ numTests = 3 /\ interrupted
  /\ Started(1)
  /\ err[2] = "undefined" /\ 2 \notin dispatched
  /\ pc[3] = "cancelled" /\ queue = <<>>

\* positions in the emitter's log
IsTerminalOf(i, t) == events[i].test = t /\ IsTerminal(events[i])
IsStartOf(i, t) == events[i] = Ev("test-file-start", t)
\* the test is being executed by runTest or by the worker pool
Executing(t) == pc[t] \in {"running", "inflight"}

\* C23: in the parallel strategy, whenever two tests are in flight at the
\* same time, the call of either one can be the next to settle and have
\* its terminal event emitted: nothing orders the terminal events of tests
\* in flight together by their dispatch order.
C23_CompletionOrderFree ==
  \A t, u \in Tests :
    (~serial /\ Alive /\ t < u /\ pc[t] = "inflight" /\ pc[u] = "inflight") =>
      /\ ENABLED WorkerSettle(t, "result")
      /\ ENABLED WorkerSettle(u, "result")
      /\ ENABLED WorkerSettle(u, "Error")

\* the later test's terminal event precedes the earlier test's, both tests
\* having started before either ended
C23_Witness ==
  /\ ~serial /\ maxWorkers >= 2 /\ numTests >= 2
  /\ \E i, j, k, l \in 1..Len(events) :
       /\ IsStartOf(i, 1) /\ IsStartOf(j, 2)
       /\ IsTerminalOf(k, 2) /\ IsTerminalOf(l, 1)
       /\ i < j /\ j < k /\ k < l

\* C24: in both strategies a test starts executing (runTest or worker.worker
\* is called for it) only in the step in which the emit of its
\* test-file-start returns: its start event is in the log and it was
\* waiting for that emit, and no step that emits a test-file-start also
\* hands a test to execution.
C24_DispatchAfterStartEmitReturned ==
  /\ [](\A t \in Tests :
          (t \in dispatched \/ Executing(t)) => (Started(t) /\ pc[t] # "emitStart"))
  /\ [][\A t \in Tests :
          ((t \in dispatched' /\ t \notin dispatched)
             \/ (Executing(t)' /\ ~Executing(t)))
            => /\ pc[t] = "emitStart" /\ Started(t)
               /\ StartedTests' = StartedTests
               /\ t \in dispatched' /\ Executing(t)']_vars

C24_Witness ==
  /\ ~serial /\ maxWorkers >= 2 /\ numTests >= 2
  /\ pc[1] = "inflight" /\ 1 \in dispatched
  /\ pc[2] = "emitStart" /\ 2 \notin dispatched /\ Started(2)

\* C26: in the parallel strategy no test is handed to the worker pool in a
\* step taken after worker.end was called.
C26_NoDispatchAfterEnd ==
  [][(~serial /\ endCalls > 0) => dispatched' = dispatched]_vars

\* C27: provided every emit returns and every execution settles, runTests
\* eventually settles or the process exits, for every test list and every
\* timing of the watcher's notifications.
C27_RunTerminates ==
  <>(outcome \in {"fulfilled", "rejected"} \/ ~Alive)

C27_Witness ==
  /\ serial /\ numTests = 0 /\ interrupted
  /\ outcome = "fulfilled" /\ events = <<>>

\* C28: in the sequential strategy exit is never called and no chain ends in
\* the exit path; an execution error with the ProcessTerminatedError tag
\* gets one test-file-failure, like any other error; exit is called only in
\* the parallel strategy.
C28_NoEscalationInBand ==
  /\ exitCalls # <<>> => ~serial
  /\ serial =>
       \A t \in Tests :
         /\ pc[t] # "exited"
         /\ err[t] = "ProcessTerminatedError" =>
              /\ pc[t] \in {"emitFailure", "done"}
              /\ EventCount("test-file-failure", t) = 1
              /\ EventCount("test-file-success", t) = 0

C28_Witness ==
  /\ serial /\ outcome = "fulfilled" /\ Alive
  /\ \E t \in Tests : err[t] = "ProcessTerminatedError" /\ pc[t] = "done"

\* a clock is installed on the global object
ClockInstalled ==
  lolexLog # <<>> /\ lolexLog[Len(lolexLog)] = "install"

\* C29: the faking flag is true exactly when the last lolex call was an
\* install; installs and uninstalls alternate, starting with an install;
\* after useFakeTimers the instance is faking, after useRealTimers or
\* dispose it is not; useFakeTimers while faking and useRealTimers or
\* dispose while not faking call neither install nor uninstall.
C29_FlagMatchesInstalledClock ==
  /\ [](/\ fakingTime <=> ClockInstalled
        /\ fakingTime => clock.made
        /\ \A i \in 1..Len(lolexLog) :
             lolexLog[i] = (IF i % 2 = 1 THEN "install" ELSE "uninstall")
        /\ lastCall = "useFakeTimers" => fakingTime
        /\ lastCall \in {"useRealTimers", "dispose"} => ~fakingTime)
  /\ [][/\ (UseFakeTimers /\ fakingTime) => UNCHANGED <<lolexLog, clock>>
        /\ ((UseRealTimers \/ Dispose) /\ ~fakingTime)
             => UNCHANGED <<lolexLog, clock>>
        /\ (UseFakeTimers /\ ~fakingTime)
             => lolexLog' = Append(lolexLog, "install")
        /\ ((UseRealTimers \/ Dispose) /\ fakingTime)
             => lolexLog' = Append(lolexLog, "uninstall")]_vars

C29_Witness ==
  /\ lastCall = "dispose" /\ ~fakingTime
  /\ lolexLog = <<"install", "uninstall", "install", "uninstall">>

\* C30: while time is not faked, a call of runAllTimers,
\* runOnlyPendingTimers, advanceTimersByTime, runAllTicks, reset,
\* setSystemTime or getTimerCount leaves the clock, the flag and the lolex
\* calls as they are and warns exactly once, getTimerCount returning 0; a
\* call of clearAllTimers or useRealTimers changes nothing and does not warn.
C30_NotFakingOnlyWarns ==
  [][~fakingTime =>
       /\ (\/ RunAllTimers \/ RunOnlyPendingTimers \/ RunAllTicks \/ Reset
           \/ GetTimerCount
           \/ \E ms \in 0..MaxNow : AdvanceTimersByTime(ms)
           \/ \E now \in 0..MaxNow : SetSystemTime(now))
            => /\ UNCHANGED <<clock, fakingTime, lolexLog>>
               /\ warnings' = warnings + 1
       /\ GetTimerCount => ret' = <<0>>
       /\ (ClearAllTimers \/ UseRealTimers)
            => UNCHANGED <<clock, fakingTime, lolexLog, warnings>>]_vars

C30_Witness ==
  /\ ~fakingTime /\ clock.made /\ clock.timers > 0
  /\ lastCall = "getTimerCount" /\ ret = <<0>> /\ warnings = 2

\* the paths whose latest TestStart has no TestResult after it
RunningPaths ==
  {p \in Paths :
     \E i \in 1..Len(dataLog) :
       /\ dataLog[i].type = "TestStart" /\ dataLog[i].path = p
       /\ \A j \in (i + 1)..Len(dataLog) :
            ~(dataLog[j].type = "TestResult" /\ dataLog[j].path = p)}
\* the TestResult events that were not skipped, in order
ReportedResults ==
  SelectSeq(dataLog, LAMBDA e : e.type = "TestResult" /\ ~e.skipped)

\* C31: after any sequence of TestStart and TestResult events the paths in
\* currentTests are exactly the paths that were started and got no result
\* since, each with a config it was started with; completedTests holds one
\* entry per TestResult that was not skipped, in order, and none for a
\* skipped one; done is true exactly when TestComplete was received, and
\* only a TestComplete event sets it.
C31_RunningListTracksEvents ==
  /\ [](/\ {currentTests[i][1] : i \in 1..Len(currentTests)} = RunningPaths
        /\ \A i \in 1..Len(currentTests) :
             \E j \in 1..Len(dataLog) :
               dataLog[j] = TestStartEvent([path |-> currentTests[i][1],
                                            config |-> currentTests[i][2]])
        /\ Len(completedTests) = Len(ReportedResults)
        /\ \A i \in 1..Len(completedTests) :
             /\ completedTests[i].path = ReportedResults[i].path
             /\ completedTests[i].config = ReportedResults[i].config
        /\ done <=> \E i \in 1..Len(dataLog) : dataLog[i] = TestCompleteEvent)
  /\ [][/\ done => done'
        /\ (~done /\ done') => dataLog' = Append(dataLog, TestCompleteEvent)
        /\ (dataLog' # dataLog /\ dataLog'[Len(dataLog')].type = "TestResult")
             => IF dataLog'[Len(dataLog')].skipped
                THEN completedTests' = completedTests
                ELSE Len(completedTests') = Len(completedTests) + 1]_vars

C31_Witness ==
  /\ Len(dataLog) = 3
  /\ dataLog[1].type = "TestStart" /\ dataLog[1].path = 1
  /\ dataLog[2].type = "TestStart" /\ dataLog[2].path = 2
  /\ dataLog[3] = TestResultEvent([path |-> 1, config |-> "A"], TRUE)
  /\ Len(currentTests) = 1 /\ currentTests[1][1] = 2
  /\ completedTests = <<>> /\ ~done

====
